---- MODULE Spec2Model ----
(***************************************************************************)
(* A model of unshredder.py: strip access (_get_strips), the pixel         *)
(* metrics, boundary detection (_scan_for_shreds), all-pairs matching      *)
(* (Shred.matchLeftOf), the "filter bad matches" pass, the choice of the   *)
(* right-most shred and the chain-growth loop of unshred().                *)
(*                                                                         *)
(* Strip index x of the source (0-based) is img[x+1]; row y is             *)
(* img[x+1][y+1].  A raised exception is recorded in err and stops the     *)
(* program: every action is guarded by err = "none".                       *)
(*                                                                         *)
(* Python dictionaries keyed by small integers (Shreds.shreds,             *)
(* Shred._left_matches, Shred._right_matches) iterate in ascending key     *)
(* order under CPython 2, the only interpreter that runs this source       *)
(* (xrange, itervalues, print statement); iteration is modelled so.        *)
(***************************************************************************)
EXTENDS Integers, Sequences, FiniteSets, TLC

VARIABLES
    img,             \* _pixels / _image: the sequence of strips of the opened image
    pc,              \* position in unshred(): "start","scan","match","filter","chain","done"; "probe","probed" for a direct _get_strips call
    err,             \* "none", or the name of the exception that was raised
    i,               \* _scan_for_shreds: loop index
    start,           \* _scan_for_shreds: first strip of the shred being scanned
    count,           \* _scan_for_shreds: identity of the next shred
    shreds,          \* Shreds.shreds: the identities held by the collection
    objs,            \* the Shred objects, by identity: [id, range, left, right]
    todo,            \* matching pass: ordered pairs (a, b) not yet matched
    unfiltered,      \* filter pass: shreds the loop has not visited yet
    rightmost_shred, \* unshred: identity of the right-most shred (0: None)
    shreds_list,     \* unshred: the work queue (deque of shred identities)
    new_shreds,      \* unshred: the ordered deque (shred identities)
    probe            \* result of a direct _get_strips call (strip-access specification)

vars == <<img, pc, err, i, start, count, shreds, objs, todo, unfiltered,
          rightmost_shred, shreds_list, new_shreds, probe>>

----------------------------------------------------------------------------
(* Bounds of the model *)

MaxWidth == 12

ProbeWidth == 4

ParWidth == 7

(* Strips the images are built from: 2 rows of RGBA pixels.  The alpha     *)
(* channel differs between the strips; _difference_points ignores it.  The *)
(* row differences of the two strips are 201 and 200, so the mean that     *)
(* _difference_strips takes is rounded down.                               *)
Dark == << <<0, 0, 0, 255>>, <<0, 0, 0, 255>> >>

Bright == << <<100, 100, 1, 255>>, <<100, 0, 100, 128>> >>

Palette == {Dark, Bright}

Images(w) == UNION {[1..n -> Palette] : n \in 1..w}

----------------------------------------------------------------------------
(* Image geometry: _image.size *)

Width == Len(img)

Height == Len(img[1])

NoMap == [k \in {} |-> 0]

NoProbe == [from_ |-> 0, to |-> 0, err |-> "none", reads |-> 0, strips |-> <<>>]

----------------------------------------------------------------------------
(* Pixel metrics *)

Abs(n) == IF n < 0 THEN -n ELSE n

\* _difference_points: the alpha channel (index 4) is not read.  Every pixel
\* of one image has the same format, so the ValueError branch is not taken.
difference_points(point_a, point_b) ==
    Abs(point_a[1] - point_b[1]) + Abs(point_a[2] - point_b[2])
        + Abs(point_a[3] - point_b[3])

RECURSIVE SumPoints(_, _, _)
SumPoints(strip_a, strip_b, n) ==
    IF n = 0 THEN 0
    ELSE SumPoints(strip_a, strip_b, n - 1)
             + difference_points(strip_a[n], strip_b[n])

\* _difference_strips: Python 2 integer division of non-negative integers.
\* Every strip _get_strips returns has length Height, so the RangeError
\* branch is not taken.
difference_strips(strip_a, strip_b) ==
    SumPoints(strip_a, strip_b, Len(strip_a)) \div Len(strip_a)

RECURSIVE SumConsecutive(_, _)
SumConsecutive(strips, x) ==
    IF x = 0 THEN 0
    ELSE SumConsecutive(strips, x - 1)
             + difference_strips(strips[x], strips[x + 1])

\* _acc_difference_strips: x ends as len(strips) - 1
acc_difference_strips(strips) ==
    SumConsecutive(strips, Len(strips) - 1) \div (Len(strips) - 1)

----------------------------------------------------------------------------
(* Strip access *)

\* The comparison _checkPixelBoundaries makes between x and the width
XBeyondWidth(x, width) == x > width

\* _checkPixelBoundaries(x=x): the exception it raises, or "none"
checkPixelBoundaries(x) ==
    IF XBeyondWidth(x, Width) THEN "PixelOutsideImage"
    ELSE IF x < 0 THEN "PixelOutsideImage"
    ELSE "none"

\* _get_strips(from_, to): the strips, the exception raised and the number of
\* pixels read from the grid before returning or raising.  _pixels[x, y]
\* raises IndexError for x = width (PIL's pixel access).
get_strips(from_, to) ==
    IF checkPixelBoundaries(from_) # "none"
    THEN [err |-> checkPixelBoundaries(from_), reads |-> 0, strips |-> <<>>]
    ELSE IF checkPixelBoundaries(to) # "none"
    THEN [err |-> checkPixelBoundaries(to), reads |-> 0, strips |-> <<>>]
    ELSE IF to < from_
    THEN [err |-> "RangeError", reads |-> 0, strips |-> <<>>]
    ELSE IF to >= Width
    THEN [err |-> "IndexError", reads |-> (Width - from_) * Height,
          strips |-> <<>>]
    ELSE [err |-> "none", reads |-> (to - from_ + 1) * Height,
          strips |-> [k \in 1..(to - from_ + 1) |-> img[from_ + k]]]

----------------------------------------------------------------------------
(* Shred *)

\* Shred.__init__
NewShred(from_, to, id_) ==
    [id |-> id_, range |-> <<from_, to>>, left |-> NoMap, right |-> NoMap]

getRightIndex(s) == s.range[2]

getLeftIndex(s) == s.range[1]

getWidth(s) == (s.range[2] - s.range[1]) + 1

\* A sample of the last two strips only
self_range_two(s) == <<getRightIndex(s) - 1, getRightIndex(s)>>

\* matchLeftOf: self_range
self_range(s) == <<getRightIndex(s) - 2, getRightIndex(s)>>

\* matchLeftOf: other_range
other_range(s) == <<getLeftIndex(s), getLeftIndex(s) + 2>>

Min(a, b) == IF a < b THEN a ELSE b

\* matchLeftOf: the loop over zip(right_strips, left_strips)
RECURSIVE ZipDifference(_, _, _)
ZipDifference(right_strips, left_strips, n) ==
    IF n = 0 THEN 0
    ELSE ZipDifference(right_strips, left_strips, n - 1)
             + difference_strips(right_strips[n], left_strips[n])

\* m with m[k] set to v (a dictionary assignment)
Put(m, k, v) == [x \in DOMAIN m \cup {k} |-> IF x = k THEN v ELSE m[x]]

\* A second write that goes to the other shred's left matches (the slot
\* matchRightOf fills) instead of its right matches
StoreMatchLeftOnly(o, a, b, difference) ==
    [x \in DOMAIN o |->
        [o[x] EXCEPT
            !.left = IF x = a THEN Put(@, b, difference)
                     ELSE IF x = b THEN Put(@, a, difference) ELSE @]]

\* matchLeftOf: the two dictionary writes, on the heap of shreds o
StoreMatch(o, a, b, difference) ==
    [x \in DOMAIN o |->
        [o[x] EXCEPT
            !.left = IF x = a THEN Put(@, b, difference) ELSE @,
            !.right = IF x = b THEN Put(@, a, difference) ELSE @]]

\* Shred.matchLeftOf(self = o[a], other_shred = o[b]): the exception raised
\* and the heap afterwards
matchLeftOf(o, a, b) ==
    LET rs == get_strips(self_range(o[a])[1], self_range(o[a])[2])
        ls == get_strips(other_range(o[b])[1], other_range(o[b])[2])
    IN  IF rs.err # "none" THEN [err |-> rs.err, objs |-> o]
        ELSE IF ls.err # "none" THEN [err |-> ls.err, objs |-> o]
        ELSE [err |-> "none",
              objs |-> StoreMatch(o, a, b,
                          ZipDifference(rs.strips, ls.strips,
                                        Min(Len(rs.strips), Len(ls.strips))))]

\* sorted(m, key=m.get): a stable sort of the keys, which the dictionary
\* yields in ascending order
RECURSIVE SortedKeys(_, _)
SortedKeys(m, keys) ==
    IF keys = {} THEN <<>>
    ELSE LET k == CHOOSE x \in keys :
                     \A y \in keys : m[x] < m[y] \/ (m[x] = m[y] /\ x <= y)
         IN  <<k>> \o SortedKeys(m, keys \ {k})

getBestMatchesLeft(s) == SortedKeys(s.left, DOMAIN s.left)

getBestMatchesRight(s) == SortedKeys(s.right, DOMAIN s.right)

\* getNthBestMatchLeft(0): (identity, score); the callers raise IndexError
\* when the dictionary is empty
getBestMatchLeft(s) ==
    <<getBestMatchesLeft(s)[1], s.left[getBestMatchesLeft(s)[1]]>>

getBestMatchRight(s) ==
    <<getBestMatchesRight(s)[1], s.right[getBestMatchesRight(s)[1]]>>

\* The value setBestMatchLeft stores
BestMatchScore == 1

\* Shred.setBestMatchLeft(shred), on the heap
setBestMatchLeft(o, s, c) ==
    [o EXCEPT ![s].left = Put(@, c, BestMatchScore)]

----------------------------------------------------------------------------
Init ==
    /\ img \in Images(MaxWidth)
    /\ pc = "start"
    /\ err = "none"
    /\ i = 0
    /\ start = 0
    /\ count = 1
    /\ shreds = {}
    /\ objs = [k \in {} |-> 0]
    /\ todo = {}
    /\ unfiltered = {}
    /\ rightmost_shred = 0
    /\ shreds_list = <<>>
    /\ new_shreds = <<>>
    /\ probe = NoProbe

----------------------------------------------------------------------------
(* _scan_for_shreds *)

\* strips = _get_strips(0, _image.size[0]-3)
ScanStrips == get_strips(0, Width - 3)

\* difference > 119
BoundaryThreshold == 119

\* (float(post_difference)/difference) < 0.68, for difference > 0: the
\* quotient of two small integers compares with 0.68 as the exact fraction
\* does with 68/100
RatioBelowCutoff(post_difference, difference) ==
    100 * post_difference < 68 * difference

\* A scan that starts the next shred on the boundary strip itself
NextStartSame(k) == k

\* start = i+1
NextStart(k) == k + 1

\* shreds.add(Shred(from_, to, id_)), on the heap
AddShred(o, from_, to, id_) ==
    [x \in DOMAIN o \cup {id_} |->
        IF x = id_ THEN NewShred(from_, to, id_) ELSE o[x]]

\* unshred() calls _scan_for_shreds(), which first fetches the strips
ScanStart ==
    /\ pc = "start" /\ err = "none"
    /\ IF ScanStrips.err # "none"
       THEN err' = ScanStrips.err /\ pc' = pc
       ELSE err' = err /\ pc' = "scan"
    /\ UNCHANGED <<img, i, start, count, shreds, objs, todo, unfiltered,
                   rightmost_shred, shreds_list, new_shreds, probe>>

\* One iteration of "while i + 1 < len(strips)"
ScanStep ==
    /\ pc = "scan" /\ err = "none"
    /\ i + 1 < Len(ScanStrips.strips)
    /\ LET strips == ScanStrips.strips
           difference == difference_strips(strips[i + 1], strips[i + 2])
           post == get_strips(i + 1, i + 3)
       IN  IF difference > BoundaryThreshold
           THEN IF post.err # "none"
                THEN /\ err' = post.err
                     /\ UNCHANGED <<i, start, count, shreds, objs>>
                ELSE IF RatioBelowCutoff(acc_difference_strips(post.strips),
                                         difference)
                THEN /\ objs' = AddShred(objs, start, i, count)
                     /\ shreds' = shreds \cup {count}
                     /\ start' = NextStart(i)
                     /\ count' = count + 1
                     /\ i' = i + 1
                     /\ err' = err
                ELSE /\ i' = i + 1
                     /\ UNCHANGED <<err, start, count, shreds, objs>>
           ELSE /\ i' = i + 1
                /\ UNCHANGED <<err, start, count, shreds, objs>>
    /\ UNCHANGED <<img, pc, todo, unfiltered, rightmost_shred, shreds_list,
                   new_shreds, probe>>

\* The ordered pairs of the matching pass of unshred()
AllPairs(ids) == {p \in ids \X ids : p[1] # p[2]}

\* Loop exit: the remaining strips become the last shred, the collection is
\* returned and unshred() goes on to the matching pass
ScanFinish ==
    /\ pc = "scan" /\ err = "none"
    /\ ~(i + 1 < Len(ScanStrips.strips))
    /\ objs' = AddShred(objs, start, Width - 1, count)
    /\ shreds' = shreds \cup {count}
    /\ todo' = AllPairs(shreds')
    /\ pc' = "match"
    /\ UNCHANGED <<img, err, i, start, count, unfiltered, rightmost_shred,
                   shreds_list, new_shreds, probe>>

----------------------------------------------------------------------------
(* unshred: the matching pass *)

\* The pair the nested for loops reach next: shreds in ascending identity,
\* and for each the other shreds in ascending identity
NextPair(pairs) ==
    CHOOSE p \in pairs :
        \A q \in pairs : p[1] < q[1] \/ (p[1] = q[1] /\ p[2] <= q[2])

\* shred.matchLeftOf(other_shred) for the pair p
MatchPair(p) ==
    LET r == matchLeftOf(objs, p[1], p[2])
    IN  /\ err' = r.err
        /\ objs' = r.objs
        /\ todo' = todo \ {p}

\* One iteration of the inner loop of the matching pass
MatchNext ==
    /\ pc = "match" /\ err = "none"
    /\ todo # {}
    /\ MatchPair(NextPair(todo))
    /\ UNCHANGED <<img, pc, i, start, count, shreds, unfiltered,
                   rightmost_shred, shreds_list, new_shreds, probe>>

\* The matching pass is over; the filter pass starts
MatchDone ==
    /\ pc = "match" /\ err = "none"
    /\ todo = {}
    /\ pc' = "filter"
    /\ unfiltered' = shreds
    /\ UNCHANGED <<img, err, i, start, count, shreds, objs, todo,
                   rightmost_shred, shreds_list, new_shreds, probe>>

----------------------------------------------------------------------------
(* unshred: "Filter bad matches" *)

SetMin(S) == CHOOSE x \in S : \A y \in S : x <= y

\* for other_shred_id in shred.getBestMatchesLeft(): the list is sorted once,
\* before the loop; the loop has no break
RECURSIVE FilterLoop(_, _, _)
FilterLoop(o, s, candidates) ==
    IF candidates = <<>> THEN o
    ELSE LET other_shred == Head(candidates)
         IN  IF getBestMatchRight(o[other_shred])[1] = s
             THEN FilterLoop(setBestMatchLeft(o, s, other_shred), s,
                             Tail(candidates))
             ELSE FilterLoop(o, s, Tail(candidates))

\* The body of "for shred in shreds" of the filter pass, for shred s
FilterShred(o, s) ==
    IF s # getBestMatchRight(o[getBestMatchLeft(o[s])[1]])[1]
    THEN FilterLoop(o, s, getBestMatchesLeft(o[s]))
    ELSE o

\* One iteration of the filter pass.  getBestMatchLeft() indexes an empty
\* list when the shred has no match at all (a single shred): IndexError.
FilterNext ==
    /\ pc = "filter" /\ err = "none"
    /\ unfiltered # {}
    /\ LET s == SetMin(unfiltered)
       IN  IF DOMAIN objs[s].left = {}
           THEN err' = "IndexError" /\ UNCHANGED <<objs, unfiltered>>
           ELSE /\ objs' = FilterShred(objs, s)
                /\ unfiltered' = unfiltered \ {s}
                /\ err' = err
    /\ UNCHANGED <<img, pc, i, start, count, shreds, todo, rightmost_shred,
                   shreds_list, new_shreds, probe>>

----------------------------------------------------------------------------
(* unshred: the right-most shred *)

\* A search that keeps the highest ratio instead of the lowest
RatioMore(mr, ml, low) ==
    low.maxint \/ mr * low.ml > low.mr * ml

\* ratio < lowest_ratio, for ratio = mr / float(ml) with ml > 0 and the
\* lowest ratio so far low (maxint: still sys.maxint, which every ratio of
\* two scores is below).  Scores are integers below 2^12, so the float
\* quotients compare as the exact fractions do.
RatioLess(mr, ml, low) ==
    low.maxint \/ mr * low.ml < low.mr * ml

\* for shred in shreds: ... of the right-most search, over the identities
\* ids (ascending); low is lowest_ratio and best is rightmost_shred.
\* The division raises ZeroDivisionError when the best left score is 0.
RECURSIVE RightmostLoop(_, _, _, _)
RightmostLoop(o, ids, low, best) ==
    IF ids = {} THEN [err |-> "none", shred |-> best]
    ELSE LET s == SetMin(ids)
             ml == getBestMatchLeft(o[s])
             mr == getBestMatchRight(o[s])
         IN  IF ml[2] = 0 THEN [err |-> "ZeroDivisionError", shred |-> best]
             ELSE IF RatioLess(mr[2], ml[2], low)
             THEN RightmostLoop(o, ids \ {s},
                                [maxint |-> FALSE, mr |-> mr[2], ml |-> ml[2]],
                                s)
             ELSE RightmostLoop(o, ids \ {s}, low, best)

\* The deque filled from the collection, in iteration order
RECURSIVE AsList(_)
AsList(ids) ==
    IF ids = {} THEN <<>>
    ELSE <<SetMin(ids)>> \o AsList(ids \ {SetMin(ids)})

\* The filter pass is over: find the right-most shred, remove it from the
\* collection, fill the work queue and seed the ordered deque
Rightmost ==
    /\ pc = "filter" /\ err = "none"
    /\ unfiltered = {}
    /\ LET r == RightmostLoop(objs, shreds,
                              [maxint |-> TRUE, mr |-> 0, ml |-> 1], 0)
       IN  IF r.err # "none"
           THEN /\ err' = r.err
                /\ UNCHANGED <<pc, shreds, rightmost_shred, shreds_list,
                               new_shreds>>
           ELSE /\ rightmost_shred' = r.shred
                /\ shreds' = shreds \ {r.shred}
                /\ shreds_list' = AsList(shreds')
                /\ new_shreds' = <<r.shred>>
                /\ pc' = "chain"
                /\ err' = err
    /\ UNCHANGED <<img, i, start, count, objs, todo, unfiltered, probe>>

----------------------------------------------------------------------------
(* unshred: chain growth *)

\* A test against the tail of the ordered deque instead of its head
TailMatches(ordered, left_of) == ordered[Len(ordered)] = left_of

\* new_shreds[0].id == left_of
HeadMatches(ordered, left_of) == ordered[1] = left_of

\* new_shreds.appendleft(shred)
AppendLeft(ordered, shred) == <<shred>> \o ordered

\* A loop that forgets the popped shred instead of re-queueing it
RequeueDrop(rest, shred) == rest

\* shreds_list.append(shred), after the popleft
Requeue(rest, shred) == Append(rest, shred)

\* One iteration of "while len(shreds_list) > 0"
ChainStep ==
    /\ pc = "chain" /\ err = "none"
    /\ Len(shreds_list) > 0
    /\ LET shred == Head(shreds_list)
           left_of == getBestMatchLeft(objs[shred])[1]
       IN  IF HeadMatches(new_shreds, left_of)
           THEN /\ new_shreds' = AppendLeft(new_shreds, shred)
                /\ shreds_list' = Tail(shreds_list)
           ELSE /\ shreds_list' = Requeue(Tail(shreds_list), shred)
                /\ new_shreds' = new_shreds
    /\ UNCHANGED <<img, pc, err, i, start, count, shreds, objs, todo,
                   unfiltered, rightmost_shred, probe>>

\* return new_shreds
ChainDone ==
    /\ pc = "chain" /\ err = "none"
    /\ Len(shreds_list) = 0
    /\ pc' = "done"
    /\ UNCHANGED <<img, err, i, start, count, shreds, objs, todo, unfiltered,
                   rightmost_shred, shreds_list, new_shreds, probe>>

----------------------------------------------------------------------------
Next ==
    \/ ScanStart
    \/ ScanStep
    \/ ScanFinish
    \/ MatchNext
    \/ MatchDone
    \/ FilterNext
    \/ Rightmost
    \/ ChainStep
    \/ ChainDone

Spec == Init /\ [][Next]_vars

----------------------------------------------------------------------------
(* Properties of boundary detection *)

\* _scan_for_shreds has returned
Scanned == pc \in {"match", "filter", "chain", "done"}

\* The shreds whose inclusive range holds strip x
Covering(x) == {s \in DOMAIN objs : objs[s].range[1] <= x /\ x <= objs[s].range[2]}

\* C1: once _scan_for_shreds has returned, every shred has from <= to, the
\* shreds carry distinct identities (as many shreds as identities handed
\* out), every strip index of 0..Width-1 lies in the range of exactly one
\* shred, and the last shred emitted is [start, Width-1].
C1_Partition ==
    Scanned =>
        /\ \A s \in DOMAIN objs :
               /\ objs[s].id = s
               /\ objs[s].range[1] <= objs[s].range[2]
               /\ 0 <= objs[s].range[1] /\ objs[s].range[2] <= Width - 1
        /\ DOMAIN objs = 1..count
        /\ \A x \in 0..(Width - 1) : Cardinality(Covering(x)) = 1
        /\ objs[count].range = <<start, Width - 1>>

\* Witness of C1: a scan that confirmed two boundaries, one shred a single
\* strip wide, and a last shred that starts where the scan stopped
C1_Witness ==
    /\ pc = "match"
    /\ count = 3
    /\ \E s \in DOMAIN objs : getWidth(objs[s]) = 1
    /\ objs[count].range[1] = Width - 3

----------------------------------------------------------------------------
(* Properties of the ordering *)

Range(f) == {f[k] : k \in DOMAIN f}

NoDuplicates(f) == \A j, k \in DOMAIN f : j # k => f[j] # f[k]

\* C2: during chain growth the ordered deque and the work queue hold no
\* shred twice, share no shred and together hold every detected shred; the
\* returned deque holds each of the N detected shreds exactly once.
C2_ExactlyOnce ==
    /\ pc \in {"chain", "done"} =>
           /\ NoDuplicates(new_shreds)
           /\ NoDuplicates(shreds_list)
           /\ Range(new_shreds) \cap Range(shreds_list) = {}
           /\ Range(new_shreds) \cup Range(shreds_list) = DOMAIN objs
    /\ pc = "done" =>
           /\ Len(new_shreds) = Cardinality(DOMAIN objs)
           /\ Range(new_shreds) = DOMAIN objs

\* Witness of C2: unshred returned three shreds, the right-most not the
\* last one detected
C2_Witness ==
    /\ pc = "done"
    /\ Len(new_shreds) = 3
    /\ new_shreds # <<1, 2, 3>>

\* C3 as stated: the chain-growth loop always makes progress, that is,
\* whenever the work queue is not empty some queued shred has the head of
\* the ordered deque as its best left match (otherwise every iteration
\* re-queues, nothing changes and the loop never ends).
C3_QueueProgresses ==
    (pc = "chain" /\ err = "none" /\ Len(shreds_list) > 0) =>
        \E k \in DOMAIN shreds_list :
            getBestMatchLeft(objs[shreds_list[k]])[1] = new_shreds[1]

\* C4 as stated: with exactly two detected shreds unshred raises nothing,
\* its loop makes progress and it returns a deque of length 2.
C4_TwoShreds ==
    (Scanned /\ Cardinality(DOMAIN objs) = 2) =>
        /\ err = "none"
        /\ (pc = "chain" /\ Len(shreds_list) > 0) =>
               getBestMatchLeft(objs[Head(shreds_list)])[1] = new_shreds[1]
        /\ pc = "done" => Len(new_shreds) = 2

\* The ratio of shred a is at most the ratio of shred b (best right score
\* over best left score, both left scores positive)
RatioAtMost(a, b) ==
    getBestMatchRight(objs[a])[2] * getBestMatchLeft(objs[b])[2]
        <= getBestMatchRight(objs[b])[2] * getBestMatchLeft(objs[a])[2]

\* C5: the right-most shred has the minimum ratio of best right score to
\* best left score over all shreds, is out of the collection, is the only
\* element of the ordered deque when chain growth starts and stays its last
\* element.
C5_Rightmost ==
    /\ [](pc \in {"chain", "done"} =>
            /\ rightmost_shred \in DOMAIN objs
            /\ \A s \in DOMAIN objs : RatioAtMost(rightmost_shred, s)
            /\ rightmost_shred \notin shreds
            /\ shreds = DOMAIN objs \ {rightmost_shred}
            /\ new_shreds[Len(new_shreds)] = rightmost_shred)
    /\ [][(pc = "filter" /\ pc' = "chain") =>
            /\ new_shreds' = <<rightmost_shred'>>
            /\ Range(shreds_list') = DOMAIN objs \ {rightmost_shred'}]_vars

\* Witness of C5: three shreds with three different ratios, the right-most
\* one neither the first nor the last detected, and the chain complete
C5_Witness ==
    /\ pc = "done"
    /\ Cardinality(DOMAIN objs) = 3
    /\ rightmost_shred = 2
    /\ \A s \in DOMAIN objs \ {2} : ~RatioAtMost(s, 2)

\* C10: in the ordered deque every shred's best left match is the shred
\* right after it; an iteration prepends the popped shred exactly when its
\* best left match is the head, and otherwise re-queues it at the back and
\* leaves the deque alone.
C10_Adjacent ==
    /\ [](pc \in {"chain", "done"} =>
            \A k \in 1..(Len(new_shreds) - 1) :
                getBestMatchLeft(objs[new_shreds[k]])[1] = new_shreds[k + 1])
    /\ [][(pc = "chain" /\ pc' = "chain") =>
            LET shred == Head(shreds_list)
            IN  IF getBestMatchLeft(objs[shred])[1] = new_shreds[1]
                THEN /\ new_shreds' = <<shred>> \o new_shreds
                     /\ shreds_list' = Tail(shreds_list)
                ELSE /\ new_shreds' = new_shreds
                     /\ shreds_list' = Append(Tail(shreds_list), shred)]_vars

\* Witness of C10: a complete chain of three shreds that needed a re-queue
\* (the queue starts in ascending identity)
C10_Witness ==
    /\ pc = "done"
    /\ Len(new_shreds) = 3
    /\ new_shreds[1] < new_shreds[2]
    /\ new_shreds[3] # 3

----------------------------------------------------------------------------
(* Properties of the filter pass *)

\* The best left match of shred s in heap o is not mutual
NonMutual(o, s) ==
    getBestMatchRight(o[getBestMatchLeft(o[s])[1]])[1] # s

\* The left-match candidates of s whose best right match is s
Reciprocal(o, s) ==
    {c \in DOMAIN o[s].left : getBestMatchRight(o[c])[1] = s}

\* The first of those candidates in ascending left-score order
FirstReciprocal(o, s) ==
    LET order == getBestMatchesLeft(o[s])
        k == CHOOSE j \in DOMAIN order :
                 /\ order[j] \in Reciprocal(o, s)
                 /\ \A h \in 1..(j - 1) : order[h] \notin Reciprocal(o, s)
    IN  order[k]

\* C6 as stated: when the filter pass visits a shred S whose best left
\* match is not mutual, then, if S has a candidate whose best right match is
\* S, afterwards the best left match of S is the first such candidate C in
\* ascending score order and nothing but S.leftMatchScore[C] has changed;
\* without such a candidate nothing has changed.
C6_Override ==
    [][(pc = "filter" /\ unfiltered' # unfiltered) =>
        LET S == SetMin(unfiltered)
        IN  NonMutual(objs, S) =>
                IF Reciprocal(objs, S) # {}
                THEN LET C == FirstReciprocal(objs, S)
                     IN  /\ getBestMatchLeft(objs'[S])[1] = C
                         /\ \A x \in DOMAIN objs :
                                /\ objs'[x].right = objs[x].right
                                /\ \A k \in DOMAIN objs[x].left :
                                       (x # S \/ k # C) =>
                                           objs'[x].left[k] = objs[x].left[k]
                ELSE objs' = objs]_vars

----------------------------------------------------------------------------
(* Properties of matchLeftOf *)

\* Strip x of the image (0-based, as in the source)
Strip(x) == img[x + 1]

\* The sum of the strip differences of the last k strips of shred a paired
\* in order with the first k strips of shred b
RECURSIVE EdgeScore(_, _, _, _)
EdgeScore(a, b, k, j) ==
    IF j = 0 THEN 0
    ELSE EdgeScore(a, b, k, j - 1)
             + difference_strips(Strip(objs[a].range[2] - k + j),
                                 Strip(objs[b].range[1] + j - 1))

\* The sampled strips of a and b are pixel for pixel the same
SameEdges(a, b, k) ==
    \A j \in 1..k :
        Strip(objs[a].range[2] - k + j) = Strip(objs[b].range[1] + j - 1)

\* Every score the matching pass has stored is the k-strip edge score, over
\* strips that lie in the image, stored in both slots, and is 0 when the
\* sampled strips are the same
ScoresAreEdgeScores(k) ==
    pc = "match" =>
        \A a, b \in DOMAIN objs :
            /\ b \in DOMAIN objs[a].left <=> a \in DOMAIN objs[b].right
            /\ b \in DOMAIN objs[a].left =>
                   /\ a # b
                   /\ 0 <= objs[a].range[2] - k + 1
                   /\ objs[b].range[1] + k - 1 <= Width - 1
                   /\ objs[a].left[b] = EdgeScore(a, b, k, k)
                   /\ objs[b].right[a] = EdgeScore(a, b, k, k)
                   /\ SameEdges(a, b, k) => objs[a].left[b] = 0

\* C8 as stated: the score is taken over the last 2 strips of A and the
\* first 2 strips of B.
C8_TwoStrips == ScoresAreEdgeScores(2)

\* C8 as amended: matchLeftOf samples the 3 strips A.to-2..A.to and the 3
\* strips B.from..B.from+2 (both ranges inclusive), pairs them in order, sums
\* the strip differences and stores that total in A.leftMatchScore[B] and
\* in B.rightMatchScore[A]; the score is 0 when the sampled strips are the
\* same.
C8_ThreeStrips == ScoresAreEdgeScores(3)

\* Witness of C8: a complete matching pass over three shreds with a score
\* of 0 between identical edges and a score that is not 0
C8_Witness ==
    /\ pc = "match" /\ err = "none" /\ todo = {}
    /\ Cardinality(DOMAIN objs) = 3
    /\ \E a, b \in DOMAIN objs :
           a # b /\ SameEdges(a, b, 3) /\ objs[a].left[b] = 0
    /\ \E a, b \in DOMAIN objs :
           a # b /\ SameEdges(a, b, 2) /\ objs[a].left[b] > 0

----------------------------------------------------------------------------
(* The matching pass with its calls in any order *)

\* for shred in shreds: for other_shred in shreds: shred.matchLeftOf(
\* other_shred), run to its end or to the first exception, from heap o
RECURSIVE SequentialPass(_, _)
SequentialPass(o, pairs) ==
    IF pairs = {} THEN [err |-> "none", objs |-> o]
    ELSE LET p == NextPair(pairs)
             r == matchLeftOf(o, p[1], p[2])
         IN  IF r.err # "none" THEN r
             ELSE SequentialPass(r.objs, pairs \ {p})

\* The heap as _scan_for_shreds returned it: no match recorded
ClearMatches(o) ==
    [x \in DOMAIN o |-> [o[x] EXCEPT !.left = NoMap, !.right = NoMap]]

\* One matchLeftOf call of the matching pass, for any pair still to match
MatchAny ==
    /\ pc = "match" /\ err = "none"
    /\ \E p \in todo : MatchPair(p)
    /\ UNCHANGED <<img, pc, i, start, count, shreds, unfiltered,
                   rightmost_shred, shreds_list, new_shreds, probe>>

InitPar ==
    /\ img \in Images(ParWidth)
    /\ pc = "start"
    /\ err = "none"
    /\ i = 0
    /\ start = 0
    /\ count = 1
    /\ shreds = {}
    /\ objs = [k \in {} |-> 0]
    /\ todo = {}
    /\ unfiltered = {}
    /\ rightmost_shred = 0
    /\ shreds_list = <<>>
    /\ new_shreds = <<>>
    /\ probe = NoProbe

NextPar ==
    \/ ScanStart
    \/ ScanStep
    \/ ScanFinish
    \/ MatchAny

SpecPar == InitPar /\ [][NextPar]_vars

\* C9: a matchLeftOf call of the matching pass writes exactly the two slots
\* A.leftMatchScore[B] and B.rightMatchScore[A], neither written before by
\* another pair; and when all pairs are matched, in whatever order, the maps
\* are those the sequential pass leaves, each shred with one left and one
\* right entry for every other shred.
C9_AnyOrder ==
    /\ [][(pc = "match" /\ todo' # todo /\ err' = "none") =>
            \E p \in todo \ todo' :
                /\ p[2] \notin DOMAIN objs[p[1]].left
                /\ p[1] \notin DOMAIN objs[p[2]].right
                /\ p[2] \in DOMAIN objs'[p[1]].left
                /\ objs' = [objs EXCEPT
                       ![p[1]].left = Put(@, p[2], objs'[p[1]].left[p[2]]),
                       ![p[2]].right = Put(@, p[1], objs'[p[1]].left[p[2]])]]_vars
    /\ []((pc = "match" /\ todo = {} /\ err = "none") =>
            /\ objs = SequentialPass(ClearMatches(objs),
                                     AllPairs(DOMAIN objs)).objs
            /\ \A s \in DOMAIN objs :
                   /\ DOMAIN objs[s].left = DOMAIN objs \ {s}
                   /\ DOMAIN objs[s].right = DOMAIN objs \ {s})

\* Witness of C9: three shreds fully matched, with scores that depend on
\* the direction of the pair
C9_Witness ==
    /\ pc = "match" /\ todo = {} /\ err = "none"
    /\ Cardinality(DOMAIN objs) = 3
    /\ \E a, b \in DOMAIN objs : a # b /\ objs[a].left[b] # objs[b].left[a]

----------------------------------------------------------------------------
(* Strip access on its own *)

ProbeArgs == (0 - 2)..(Width + 2)

\* A call _get_strips(from_, to) on the opened image
Probe ==
    /\ pc = "probe"
    /\ \E from_ \in ProbeArgs, to \in ProbeArgs :
           probe' = [from_ |-> from_, to |-> to,
                     err |-> get_strips(from_, to).err,
                     reads |-> get_strips(from_, to).reads,
                     strips |-> get_strips(from_, to).strips]
    /\ pc' = "probed"
    /\ UNCHANGED <<img, err, i, start, count, shreds, objs, todo, unfiltered,
                   rightmost_shred, shreds_list, new_shreds>>

InitStrips ==
    /\ img \in Images(ProbeWidth)
    /\ pc = "probe"
    /\ err = "none"
    /\ i = 0
    /\ start = 0
    /\ count = 1
    /\ shreds = {}
    /\ objs = [k \in {} |-> 0]
    /\ todo = {}
    /\ unfiltered = {}
    /\ rightmost_shred = 0
    /\ shreds_list = <<>>
    /\ new_shreds = <<>>
    /\ probe = NoProbe

NextStrips == Probe

SpecStrips == InitStrips /\ [][NextStrips]_vars

\* C7 as stated: a call with from_ or to below 0 or at or beyond the width
\* raises PixelOutsideImage before any pixel is read; a call with
\* 0 <= from_ <= to <= Width-1 raises nothing.
C7_OutOfBounds ==
    pc = "probed" =>
        IF \/ probe.from_ < 0 \/ probe.to < 0
           \/ probe.from_ >= Width \/ probe.to >= Width
        THEN probe.err = "PixelOutsideImage" /\ probe.reads = 0
        ELSE probe.from_ <= probe.to => probe.err = "none"

====
